---- MODULE Spec2Model ----
(***************************************************************************)
(* Model of the page consolidation and split engine of sled's tree:        *)
(* tree/data.rs (Data, Pointers) and tree/node.rs (Node).                  *)
(*                                                                         *)
(* A key is a sequence of bytes.  An encoded key is the sequence           *)
(* <<shared prefix length>> \o suffix.  A record is <<encoded key, value>>.*)
(* A panic of the Rust code is an outcome with ok = FALSE that carries the *)
(* page as the panic leaves it.                                            *)
(***************************************************************************)
EXTENDS Integers, Sequences, FiniteSets, TLC

VARIABLES
    node,   \* the page fragments are replayed on (the left page of a split)
    right,  \* the sibling the latest split returned, or NoNode
    orig,   \* the page as it was when split was called, or NoNode
    pre,    \* the page before the latest operation
    last,   \* the latest operation and how it ended
    cuts,   \* the keys of the ChildSplit fragments replayed so far, in order
    hist,   \* the fragments replayed so far, in the runs that keep them
    pages   \* the pages of a sibling chain, by id, in the runs that split on

vars == <<node, right, orig, pre, last, cuts, hist, pages>>

\* ---------------------------------------------------------------- bounds
MaxByte == 2
MaxKeyLen == 2
MaxVal == 2
MaxRecs == 3
MaxSplitLen == 5
MaxPageID == 2
MaxSteps == 3
MaxChainLen == 7
MaxChainPages == 4

\* ------------------------------------------------------------ value sets
Byte == 1..MaxByte

Keys == UNION {[1..n -> Byte] : n \in 0..MaxKeyLen}

Values == 1..MaxVal

PageIDs == 1..MaxPageID

\* Option::None for next, for a merge operator and for a merge result
None == 0

NoNode == [id |-> 0]

\* ----------------------------------------------------------------- Bound
Inclusive(k) == [incl |-> TRUE, key |-> k]

Exclusive(k) == [incl |-> FALSE, key |-> k]

Bounds == {Inclusive(k) : k \in Keys} \cup {Exclusive(k) : k \in Keys}

inner(b) == b.key

\* lexicographic comparison of byte sequences: -1, 0 or 1
RECURSIVE LexCmp(_, _)
LexCmp(a, b) ==
    IF a = <<>> /\ b = <<>> THEN 0
    ELSE IF a = <<>> THEN -1
    ELSE IF b = <<>> THEN 1
    ELSE IF Head(a) < Head(b) THEN -1
    ELSE IF Head(a) > Head(b) THEN 1
    ELSE LexCmp(Tail(a), Tail(b))

KeyLt(a, b) == LexCmp(a, b) = -1

\* Bound::Inclusive(k) < hi, the range test of apply: the range is [lo, hi)
BoundLt(a, b) ==
    IF a.incl = b.incl THEN KeyLt(a.key, b.key)
    ELSE IF a.incl THEN KeyLt(a.key, b.key)
    ELSE LexCmp(a.key, b.key) <= 0

\* ---------------------------------------------------------- prefix codec
RECURSIVE CommonPrefixLen(_, _)
CommonPrefixLen(a, b) ==
    IF a = <<>> \/ b = <<>> \/ Head(a) # Head(b) THEN 0
    ELSE 1 + CommonPrefixLen(Tail(a), Tail(b))

prefix_encode(prefix, buf) ==
    LET p == CommonPrefixLen(prefix, buf)
    IN  <<p>> \o SubSeq(buf, p + 1, Len(buf))

prefix_decode(prefix, buf) == SubSeq(prefix, 1, buf[1]) \o Tail(buf)

\* compares two keys encoded against the same prefix, without decoding
prefix_cmp(a, b) ==
    IF a[1] > b[1] THEN -1
    ELSE IF a[1] < b[1] THEN 1
    ELSE LexCmp(Tail(a), Tail(b))

\* ------------------------------------------------------- sorting, search
\* the arrangements of s
Perms(s) ==
    {[i \in 1..Len(s) |-> s[f[i]]] : f \in Permutations(1..Len(s))}

IsSortedByPrefixCmp(s) ==
    \A i \in 1..(Len(s) - 1) : prefix_cmp(s[i][1], s[i + 1][1]) <= 0

\* sort_unstable_by(prefix_cmp): any arrangement in comparator order
sort_unstable_by(s) == {t \in Perms(s) : IsSortedByPrefixCmp(t)}

\* derived Ord of (Key, T): by key, then by value
TupleLe(x, y) ==
    \/ KeyLt(x[1], y[1])
    \/ x[1] = y[1] /\ x[2] <= y[2]

\* Vec::sort on decoded (key, value) tuples
sort(s) ==
    CHOOSE t \in Perms(s) :
        \A i \in 1..(Len(t) - 1) : TupleLe(t[i], t[i + 1])

\* binary_search_by(prefix_cmp) on a list in comparator order: the indices
\* it may return as Ok(idx); the empty set stands for Err(_)
binary_search_by(records, key) ==
    {i \in 1..Len(records) : prefix_cmp(records[i][1], key) = 0}

RemoveAt(s, i) == SubSeq(s, 1, i - 1) \o SubSeq(s, i + 1, Len(s))

push(s, rec) == Append(s, rec)

\* Vec::swap_remove: the last element takes the place of element idx
swap_remove(s, idx) ==
    LET n == Len(s)
    IN  IF idx = n THEN SubSeq(s, 1, n - 1)
        ELSE [SubSeq(s, 1, n - 1) EXCEPT ![idx] = s[n]]

\* Vec::remove
remove(s, idx) == RemoveAt(s, idx)

\* retain with the test turned round
retain_not_below(s, prefix, bound) ==
    SelectSeq(s, LAMBDA e : ~KeyLt(prefix_decode(prefix, e[1]), bound))

\* Vec::retain
RECURSIVE retain(_, _, _)
retain(s, prefix, bound) ==
    IF s = <<>> THEN <<>>
    ELSE LET rest == retain(Tail(s), prefix, bound)
         IN  IF KeyLt(prefix_decode(prefix, s[1][1]), bound)
             THEN <<s[1]>> \o rest
             ELSE rest

\* ------------------------------------------------------------------ Data
Leaf(items) == [tag |-> "Leaf", items |-> items]

Index(ptrs) == [tag |-> "Index", items |-> ptrs]

len(data) == Len(data.items)

DecodeAll(xs, lhs_prefix) ==
    [i \in 1..Len(xs) |-> <<prefix_decode(lhs_prefix, xs[i][1]), xs[i][2]>>]

EncodeAll(xs, prefix) ==
    [i \in 1..Len(xs) |-> <<prefix_encode(prefix, xs[i][1]), xs[i][2]>>]

SplitPanic == [ok |-> FALSE, split |-> <<>>, rhs |-> <<>>]

\* Pointers::split that cuts at floor(n/2)
Pointers_split_at_half(ptrs, lhs_prefix) ==
    LET decoded_xs == sort(DecodeAll(ptrs, lhs_prefix))
        n == Len(decoded_xs)
        mid == n \div 2
    IN  IF mid > n THEN SplitPanic
        ELSE LET rhs == SubSeq(decoded_xs, mid + 1, n)
             IN  IF rhs = <<>> THEN SplitPanic
                 ELSE LET split == rhs[1][1]
                      IN  [ok |-> TRUE, split |-> split,
                           rhs |-> EncodeAll(rhs, split)]

\* Pointers::split that takes the split key from the whole list
Pointers_split_first_key(ptrs, lhs_prefix) ==
    LET decoded_xs == sort(DecodeAll(ptrs, lhs_prefix))
        n == Len(decoded_xs)
        mid == (n \div 2) + 1
    IN  IF mid > n THEN SplitPanic
        ELSE LET rhs == SubSeq(decoded_xs, mid + 1, n)
             IN  IF rhs = <<>> THEN SplitPanic
                 ELSE LET split == decoded_xs[1][1]
                      IN  [ok |-> TRUE, split |-> split,
                           rhs |-> EncodeAll(rhs, split)]

\* Pointers::split: [ok, split, rhs]; ok = FALSE is a panic
Pointers_split(ptrs, lhs_prefix) ==
    LET decoded_xs == sort(DecodeAll(ptrs, lhs_prefix))
        n == Len(decoded_xs)
        mid == (n \div 2) + 1
    IN  IF mid > n THEN SplitPanic
        ELSE LET rhs == SubSeq(decoded_xs, mid + 1, n)
             IN  IF rhs = <<>> THEN SplitPanic
                 ELSE LET split == rhs[1][1]
                      IN  [ok |-> TRUE, split |-> split,
                           rhs |-> EncodeAll(rhs, split)]

\* split_inner that cuts at floor(n/2)
split_inner_at_half(xs, lhs_prefix) ==
    LET decoded_xs == sort(DecodeAll(xs, lhs_prefix))
        n == Len(decoded_xs)
        mid == n \div 2
    IN  IF mid > n THEN SplitPanic
        ELSE LET rhs == SubSeq(decoded_xs, mid + 1, n)
             IN  IF rhs = <<>> THEN SplitPanic
                 ELSE LET split == rhs[1][1]
                      IN  [ok |-> TRUE, split |-> split,
                           rhs |-> EncodeAll(rhs, split)]

\* split_inner of Data::split, the same algorithm over leaf records
split_inner(xs, lhs_prefix) ==
    LET decoded_xs == sort(DecodeAll(xs, lhs_prefix))
        n == Len(decoded_xs)
        mid == (n \div 2) + 1
    IN  IF mid > n THEN SplitPanic
        ELSE LET rhs == SubSeq(decoded_xs, mid + 1, n)
             IN  IF rhs = <<>> THEN SplitPanic
                 ELSE LET split == rhs[1][1]
                      IN  [ok |-> TRUE, split |-> split,
                           rhs |-> EncodeAll(rhs, split)]

\* Data::split: [ok, split, data]
Data_split(data, lhs_prefix) ==
    IF data.tag = "Index"
    THEN LET r == Pointers_split(data.items, lhs_prefix)
         IN  [ok |-> r.ok, split |-> r.split, data |-> Index(r.rhs)]
    ELSE LET r == split_inner(data.items, lhs_prefix)
         IN  [ok |-> r.ok, split |-> r.split, data |-> Leaf(r.rhs)]

\* drop_gte that also keeps the entry at the bound
drop_gte_keeps_bound(data, at, prefix) ==
    [data EXCEPT !.items =
        SelectSeq(data.items,
                  LAMBDA e : LexCmp(prefix_decode(prefix, e[1]), inner(at)) <= 0)]

\* Data::drop_gte: keeps the entries whose decoded key is below the bound
drop_gte(data, at, prefix) ==
    [data EXCEPT !.items = retain(data.items, prefix, inner(at))]

\* push_and_sort that skips a key the list already holds
push_and_sort_dedup(ptrs, key_value) ==
    IF \E i \in 1..Len(ptrs) : ptrs[i][1] = key_value[1]
    THEN {ptrs}
    ELSE sort_unstable_by(push(ptrs, key_value))

\* Pointers::push_and_sort: the lists it may leave
push_and_sort(ptrs, key_value) == sort_unstable_by(push(ptrs, key_value))

\* ------------------------------------------------------------------ Node
Ok(n) == [ok |-> TRUE, node |-> n]

Panic(n) == [ok |-> FALSE, node |-> n]

prefix_decode_key(n, key) == prefix_decode(inner(n.lo), key)

\* the merge operator the handle resolves to: None deletes the record
merge_fn(decoded_k, old, new) ==
    LET o == IF old = None THEN Len(decoded_k) ELSE old
    IN  (o + new) % (MaxVal + 1)

\* set_leaf that appends a new key without sorting
set_leaf_no_sort(n, key, val) ==
    IF n.data.tag = "Leaf"
    THEN LET records == n.data.items
             search == binary_search_by(records, key)
         IN  IF search # {}
             THEN {Ok([n EXCEPT !.data.items =
                          swap_remove(push(records, <<key, val>>), idx)]) :
                      idx \in search}
             ELSE {Ok([n EXCEPT !.data.items = push(records, <<key, val>>)])}
    ELSE {Panic(n)}

\* set_leaf that keeps the old record of a key it finds
set_leaf_keeps_old(n, key, val) ==
    IF n.data.tag = "Leaf"
    THEN {Ok([n EXCEPT !.data.items = t]) :
             t \in sort_unstable_by(push(n.data.items, <<key, val>>))}
    ELSE {Panic(n)}

\* Node::set_leaf: the outcomes
set_leaf(n, key, val) ==
    IF n.data.tag = "Leaf"
    THEN LET records == n.data.items
             search == binary_search_by(records, key)
         IN  IF search # {}
             THEN {Ok([n EXCEPT !.data.items =
                          swap_remove(push(records, <<key, val>>), idx)]) :
                      idx \in search}
             ELSE {Ok([n EXCEPT !.data.items = t]) :
                      t \in sort_unstable_by(push(records, <<key, val>>))}
    ELSE {Panic(n)}

\* merge_leaf that keeps the old record when the operator returns None
merge_leaf_keeps_on_none(n, key, val) ==
    LET decoded_k == prefix_decode_key(n, key)
    IN  IF n.data.tag = "Leaf"
        THEN LET records == n.data.items
                 search == binary_search_by(records, key)
             IN  IF search # {}
                 THEN {LET new == merge_fn(decoded_k, records[idx][2], val)
                       IN  IF new # None
                           THEN Ok([n EXCEPT !.data.items =
                                swap_remove(push(records, <<key, new>>), idx)])
                           ELSE Ok(n) :
                          idx \in search}
                 ELSE LET new == merge_fn(decoded_k, None, val)
                      IN  IF new # None
                          THEN {Ok([n EXCEPT !.data.items = t]) :
                                   t \in sort_unstable_by(
                                            push(records, <<key, new>>))}
                          ELSE {Ok(n)}
        ELSE {Panic(n)}

\* Node::merge_leaf: the outcomes
merge_leaf(n, key, val) ==
    LET decoded_k == prefix_decode_key(n, key)
    IN  IF n.data.tag = "Leaf"
        THEN LET records == n.data.items
                 search == binary_search_by(records, key)
             IN  IF search # {}
                 THEN {LET new == merge_fn(decoded_k, records[idx][2], val)
                       IN  IF new # None
                           THEN Ok([n EXCEPT !.data.items =
                                swap_remove(push(records, <<key, new>>), idx)])
                           ELSE Ok([n EXCEPT !.data.items =
                                remove(records, idx)]) :
                          idx \in search}
                 ELSE LET new == merge_fn(decoded_k, None, val)
                      IN  IF new # None
                          THEN {Ok([n EXCEPT !.data.items = t]) :
                                  t \in sort_unstable_by(
                                           push(records, <<key, new>>))}
                          ELSE {Ok(n)}
        ELSE {Panic(n)}

\* child_split that leaves the payload as it was
child_split_keeps_data(n, cs) ==
    [n EXCEPT !.hi = Exclusive(inner(cs.at)),
              !.next = cs.to]

\* child_split that forgets the side pointer
child_split_keeps_next(n, cs) ==
    [n EXCEPT !.data = drop_gte(n.data, cs.at, inner(n.lo)),
              !.hi = Exclusive(inner(cs.at))]

\* child_split that leaves hi as it was
child_split_keeps_hi(n, cs) ==
    [n EXCEPT !.data = drop_gte(n.data, cs.at, inner(n.lo)),
              !.next = cs.to]

\* Node::child_split
child_split(n, cs) ==
    [n EXCEPT !.data = drop_gte(n.data, cs.at, inner(n.lo)),
              !.hi = Exclusive(inner(cs.at)),
              !.next = cs.to]

\* Node::parent_split: the outcomes
parent_split(n, ps) ==
    IF n.data.tag = "Index"
    THEN LET encoded_sep == prefix_encode(inner(n.lo), inner(ps.at))
         IN  {Ok([n EXCEPT !.data.items = t]) :
                 t \in push_and_sort(n.data.items, <<encoded_sep, ps.to>>)}
    ELSE {Panic(n)}

\* del_leaf that removes with swap_remove
del_leaf_swap_remove(n, key) ==
    IF n.data.tag = "Leaf"
    THEN LET records == n.data.items
             search == binary_search_by(records, key)
         IN  IF search # {}
             THEN {Ok([n EXCEPT !.data.items = swap_remove(records, idx)]) :
                      idx \in search}
             ELSE {Ok(n)}
    ELSE {Panic(n)}

\* del_leaf that ignores an index page
del_leaf_ignores_index(n, key) ==
    IF n.data.tag = "Leaf"
    THEN LET records == n.data.items
             search == binary_search_by(records, key)
         IN  IF search # {}
             THEN {Ok([n EXCEPT !.data.items = remove(records, idx)]) :
                      idx \in search}
             ELSE {Ok(n)}
    ELSE {Ok(n)}

\* del_leaf that removes the record after the one found
del_leaf_off_by_one(n, key) ==
    IF n.data.tag = "Leaf"
    THEN LET records == n.data.items
             search == binary_search_by(records, key)
         IN  IF search # {}
             THEN {Ok([n EXCEPT !.data.items = remove(records, idx + 1)]) :
                      idx \in search}
             ELSE {Ok(n)}
    ELSE {Panic(n)}

\* Node::del_leaf: the outcomes
del_leaf(n, key) ==
    IF n.data.tag = "Leaf"
    THEN LET records == n.data.items
             search == binary_search_by(records, key)
         IN  IF search # {}
             THEN {Ok([n EXCEPT !.data.items = remove(records, idx)]) :
                      idx \in search}
             ELSE {Ok(n)}
    ELSE {Panic(n)}

\* Frag
Set(k, v) == [kind |-> "Set", k |-> k, v |-> v, at |-> Inclusive(<<>>), to |-> 0]

Merge(k, v) == [kind |-> "Merge", k |-> k, v |-> v, at |-> Inclusive(<<>>), to |-> 0]

Del(k) == [kind |-> "Del", k |-> k, v |-> 0, at |-> Inclusive(<<>>), to |-> 0]

ChildSplit(at, to) == [kind |-> "ChildSplit", k |-> <<>>, v |-> 0, at |-> at, to |-> to]

ParentSplit(at, to) == [kind |-> "ParentSplit", k |-> <<>>, v |-> 0, at |-> at, to |-> to]

Base == [kind |-> "Base", k |-> <<>>, v |-> 0, at |-> Inclusive(<<>>), to |-> 0]

\* a Set arm that tests the range after the write
SetArm_checks_after(n, frag) ==
    LET decoded_k == prefix_decode_key(n, frag.k)
    IN  {IF BoundLt(Inclusive(decoded_k), n.hi) THEN o ELSE Panic(o.node) :
            o \in set_leaf(n, frag.k, frag.v)}

\* the Set arm of apply
SetArm(n, frag) ==
    LET decoded_k == prefix_decode_key(n, frag.k)
    IN  IF BoundLt(Inclusive(decoded_k), n.hi)
        THEN set_leaf(n, frag.k, frag.v)
        ELSE {Panic(n)}

\* the Merge arm of apply
MergeArm(n, frag, merge_operator) ==
    LET decoded_k == prefix_decode_key(n, frag.k)
    IN  IF BoundLt(Inclusive(decoded_k), n.hi)
        THEN IF merge_operator = None THEN {Panic(n)}
             ELSE merge_leaf(n, frag.k, frag.v)
        ELSE {Panic(n)}

\* the Del arm of apply
DelArm(n, frag) ==
    LET decoded_k == prefix_decode_key(n, frag.k)
    IN  IF BoundLt(Inclusive(decoded_k), n.hi)
        THEN del_leaf(n, frag.k)
        ELSE {Panic(n)}

\* Node::apply: the outcomes of replaying frag with the given operator handle
apply(n, frag, merge_operator) ==
    IF frag.kind = "Set" THEN SetArm(n, frag)
    ELSE IF frag.kind = "Merge" THEN MergeArm(n, frag, merge_operator)
    ELSE IF frag.kind = "ChildSplit" THEN {Ok(child_split(n, frag))}
    ELSE IF frag.kind = "ParentSplit" THEN parent_split(n, frag)
    ELSE IF frag.kind = "Del" THEN DelArm(n, frag)
    ELSE {Panic(n)}

\* Node::should_split
should_split(n, fanout) == len(n.data) > fanout

\* Node::split that gives the sibling the low boundary of the page
Node_split_keeps_lo(n, id) ==
    LET r == Data_split(n.data, inner(n.lo))
    IN  [ok |-> r.ok, split |-> r.split,
         node |-> IF r.ok
                  THEN [id |-> id, data |-> r.data, next |-> n.next,
                        lo |-> n.lo, hi |-> n.hi]
                  ELSE NoNode]

\* Node::split that leaves the sibling without a next page
Node_split_drops_next(n, id) ==
    LET r == Data_split(n.data, inner(n.lo))
    IN  [ok |-> r.ok, split |-> r.split,
         node |-> IF r.ok
                  THEN [id |-> id, data |-> r.data, next |-> None,
                        lo |-> Inclusive(r.split), hi |-> n.hi]
                  ELSE NoNode]

\* Node::split: [ok, split, node]; it takes &self, the page is not touched
Node_split(n, id) ==
    LET r == Data_split(n.data, inner(n.lo))
    IN  [ok |-> r.ok, split |-> r.split,
         node |-> IF r.ok
                  THEN [id |-> id, data |-> r.data, next |-> n.next,
                        lo |-> Inclusive(r.split), hi |-> n.hi]
                  ELSE NoNode]

\* ------------------------------------------------- fragment replay (Spec)
\* the low and high boundaries of the pages the runs start from
InitLos == {Inclusive(<<>>), Inclusive(<<1>>)}

InitHis == {Exclusive(<<MaxByte>>), Exclusive(<<MaxByte, MaxByte>>)}

\* a page as the page cache hands it over: an empty leaf, or an index with
\* the pointer to its first child
InitNodes ==
    {[id |-> 1, data |-> d, next |-> None, lo |-> lo, hi |-> hi] :
        d \in {Leaf(<<>>)}, lo \in InitLos, hi \in InitHis}
    \cup
    {[id |-> 1,
      data |-> Index(<<<<prefix_encode(inner(lo), inner(lo)), 2>>>>),
      next |-> None, lo |-> lo, hi |-> hi] :
        lo \in InitLos, hi \in InitHis}

\* the keys of a fragment, encoded against the page's low boundary
FragKeys(n) == {prefix_encode(inner(n.lo), k) : k \in Keys}

NoFrag == [kind |-> "None", k |-> <<>>, v |-> 0, at |-> Inclusive(<<>>), to |-> 0]

Init ==
    /\ node \in InitNodes
    /\ right = NoNode
    /\ orig = NoNode
    /\ pre = node
    /\ cuts = <<>>
    /\ hist = <<>>
    /\ pages = <<>>
    /\ last = [op |-> "init", ok |-> TRUE, frag |-> NoFrag, mo |-> None,
               split |-> <<>>, step |-> 0]

\* one call of apply on the page; a panic leaves the page as it is then
Apply(frag, merge_operator) ==
    \E out \in apply(node, frag, merge_operator) :
        /\ last.step < MaxSteps
        /\ len(out.node.data) <= MaxRecs
        /\ node' = out.node
        /\ pre' = node
        /\ last' = [op |-> "apply", ok |-> out.ok, frag |-> frag,
                    mo |-> merge_operator, split |-> <<>>,
                    step |-> last.step + 1]
        /\ cuts' = IF frag.kind = "ChildSplit"
                   THEN Append(cuts, inner(frag.at)) ELSE cuts
        /\ UNCHANGED <<right, orig, hist, pages>>

ApplySet == \E k \in FragKeys(node), v \in Values : Apply(Set(k, v), 1)

ApplyMerge ==
    \E k \in FragKeys(node), v \in Values, mo \in {None, 1} :
        Apply(Merge(k, v), mo)

ApplyDel == \E k \in FragKeys(node) : Apply(Del(k), 1)

ApplyChildSplit ==
    \E at \in Bounds, to \in PageIDs \ {node.id} :
        Apply(ChildSplit(at, to), 1)

ApplyParentSplit ==
    \E at \in Bounds, to \in PageIDs \ {node.id} :
        Apply(ParentSplit(at, to), 1)

ApplyBase == Apply(Base, 1)

Next ==
    \/ ApplySet
    \/ ApplyMerge
    \/ ApplyDel
    \/ ApplyChildSplit
    \/ ApplyParentSplit
    \/ ApplyBase

Spec == Init /\ [][Next]_vars

\* --------------------------------------------- split protocol (SplitSpec)
InRange(k, lo, hi) ==
    LexCmp(inner(lo), k) <= 0 /\ BoundLt(Inclusive(k), hi)

RECURSIVE SortKeys(_)
SortKeys(S) ==
    IF S = {} THEN <<>>
    ELSE LET m == CHOOSE x \in S : \A y \in S : LexCmp(x, y) <= 0
         IN  <<m>> \o SortKeys(S \ {m})

\* the records of a page that holds the keys S with the values f, in order
PageItems(S, f, lo) ==
    LET ks == SortKeys(S)
    IN  [i \in 1..Len(ks) |-> <<prefix_encode(inner(lo), ks[i]), f[ks[i]]>>]

\* the id of a sibling that existed before the runs start
OldSibling == MaxPageID + 1

\* the pages a split is called on: unique keys within [lo, hi), kept in order
SplitPages ==
    UNION {
      UNION {
        {[id |-> 1, data |-> Leaf(PageItems(S, f, lo)), next |-> nx,
          lo |-> lo, hi |-> hi] : f \in [S -> Values]}
        \cup
        {[id |-> 1, data |-> Index(PageItems(S, f, lo)), next |-> nx,
          lo |-> lo, hi |-> hi] : f \in [S -> {MaxPageID, OldSibling}]} :
        S \in {T \in SUBSET {k \in Keys : InRange(k, lo, hi)} :
                 Cardinality(T) <= MaxSplitLen}} :
      lo \in InitLos, hi \in InitHis, nx \in {None, OldSibling}}

SplitInit ==
    /\ node \in SplitPages
    /\ right = NoNode
    /\ orig = NoNode
    /\ pre = node
    /\ cuts = <<>>
    /\ hist = <<>>
    /\ pages = <<>>
    /\ last = [op |-> "init", ok |-> TRUE, frag |-> NoFrag, mo |-> None,
               split |-> <<>>, step |-> 0]

\* the driver calls split(new_id) on the page; split takes &self
SplitPage ==
    \E new_id \in PageIDs \ {node.id} :
        LET r == Node_split(node, new_id)
        IN  /\ last.op = "init"
            /\ right' = r.node
            /\ orig' = node
            /\ pre' = node
            /\ last' = [op |-> "split", ok |-> r.ok,
                        frag |-> [NoFrag EXCEPT !.to = new_id],
                        mo |-> None, split |-> r.split, step |-> 1]
            /\ UNCHANGED <<node, cuts, hist, pages>>

\* the driver replays ChildSplit{at: right.lo, to: right.id} on the page
ProtoChildSplit ==
    /\ last.op = "split"
    /\ last.ok
    /\ \E out \in apply(node, ChildSplit(right.lo, right.id), 1) :
        /\ node' = out.node
        /\ pre' = node
        /\ last' = [op |-> "apply", ok |-> out.ok,
                    frag |-> ChildSplit(right.lo, right.id), mo |-> 1,
                    split |-> last.split, step |-> 2]
    /\ cuts' = Append(cuts, inner(right.lo))
    /\ UNCHANGED <<right, orig, hist, pages>>

SplitNext == SplitPage \/ ProtoChildSplit

SplitSpec == SplitInit /\ [][SplitNext]_vars

\* ------------------------------------------- Set then Del (SetDelSpec)
\* the leaf pages a Set is replayed on
LeafPages ==
    {p \in SplitPages : p.data.tag = "Leaf" /\ len(p.data) <= MaxRecs}

SetDelInit ==
    /\ node \in LeafPages
    /\ right = NoNode
    /\ orig = NoNode
    /\ pre = node
    /\ cuts = <<>>
    /\ hist = <<>>
    /\ pages = <<>>
    /\ last = [op |-> "init", ok |-> TRUE, frag |-> NoFrag, mo |-> None,
               split |-> <<>>, step |-> 0]

\* Set(k, v) is replayed on the page; orig keeps the page as it was
SetOnce ==
    /\ last.op = "init"
    /\ \E k \in FragKeys(node), v \in Values :
        \E out \in apply(node, Set(k, v), 1) :
            /\ node' = out.node
            /\ orig' = node
            /\ pre' = node
            /\ last' = [op |-> "apply", ok |-> out.ok, frag |-> Set(k, v),
                        mo |-> 1, split |-> <<>>, step |-> 1]
    /\ UNCHANGED <<right, cuts, hist, pages>>

\* Del(k) is replayed for the key of the Set before it
DelSame ==
    /\ last.op = "apply"
    /\ last.frag.kind = "Set"
    /\ \E out \in apply(node, Del(last.frag.k), 1) :
        /\ node' = out.node
        /\ pre' = node
        /\ last' = [op |-> "apply", ok |-> out.ok,
                    frag |-> Del(last.frag.k), mo |-> 1, split |-> <<>>,
                    step |-> 2]
    /\ UNCHANGED <<right, orig, cuts, hist, pages>>

SetDelNext == SetOnce \/ DelSame

SetDelSpec == SetDelInit /\ [][SetDelNext]_vars

\* ------------------------------------- Merge after Merge (MergeSpec)
MergeInit ==
    /\ node \in LeafPages
    /\ right = NoNode
    /\ orig = node
    /\ pre = node
    /\ cuts = <<>>
    /\ hist = <<>>
    /\ pages = <<>>
    /\ last = [op |-> "init", ok |-> TRUE, frag |-> NoFrag, mo |-> None,
               split |-> <<>>, step |-> 0]

\* one more Merge for the key of the Merge fragments before it
MergeAgain ==
    /\ last.step < MaxSteps
    /\ last.ok
    /\ \E k \in FragKeys(node), v \in Values :
        /\ hist # <<>> => k = hist[1].k
        /\ \E out \in apply(node, Merge(k, v), 1) :
            /\ node' = out.node
            /\ pre' = node
            /\ last' = [op |-> "apply", ok |-> out.ok, frag |-> Merge(k, v),
                        mo |-> 1, split |-> <<>>, step |-> last.step + 1]
            /\ hist' = IF out.ok THEN Append(hist, Merge(k, v)) ELSE hist
    /\ UNCHANGED <<right, orig, cuts, pages>>

MergeNext == MergeAgain

MergeSpec == MergeInit /\ [][MergeNext]_vars

\* ------------------------------------- a chain of siblings (ChainSpec)
\* the id of the page the first page of a chain names as its next
ChainSibling == MaxChainPages + 1

\* the first page of a chain: unique keys within [lo, hi), kept in order
ChainPages ==
    UNION {
      UNION {
        {[id |-> 1, data |-> Leaf(PageItems(S, [k \in S |-> MaxVal], lo)),
          next |-> nx, lo |-> lo, hi |-> hi],
         [id |-> 1, data |-> Index(PageItems(S, [k \in S |-> ChainSibling], lo)),
          next |-> nx, lo |-> lo, hi |-> hi]} :
        S \in {T \in SUBSET {k \in Keys : InRange(k, lo, hi)} :
                 Cardinality(T) <= MaxChainLen}} :
      lo \in InitLos, hi \in {Exclusive(<<MaxByte, MaxByte, MaxByte>>)},
      nx \in {None, ChainSibling}}

ChainInit ==
    /\ node \in ChainPages
    /\ right = NoNode
    /\ orig = node
    /\ pre = node
    /\ cuts = <<>>
    /\ hist = <<>>
    /\ pages = <<node>>
    /\ last = [op |-> "init", ok |-> TRUE, frag |-> NoFrag, mo |-> None,
               split |-> <<>>, step |-> 0]

\* the driver calls split on a page of the chain with the next unused id
ChainSplit ==
    /\ ~(last.op = "split" /\ last.ok)
    /\ Len(pages) < MaxChainPages
    /\ \E i \in 1..Len(pages) :
        LET new_id == Len(pages) + 1
            r == Node_split(pages[i], new_id)
        IN  /\ right' = r.node
            /\ pre' = pages[i]
            /\ pages' = IF r.ok THEN Append(pages, r.node) ELSE pages
            /\ last' = [op |-> "split", ok |-> r.ok,
                        frag |-> [NoFrag EXCEPT !.to = new_id],
                        mo |-> None, split |-> r.split, step |-> last.step]
    /\ UNCHANGED <<node, orig, cuts, hist>>

\* the driver replays ChildSplit{at: right.lo, to: right.id} on the page
\* the split was called on
ChainChildSplit ==
    /\ last.op = "split"
    /\ last.ok
    /\ \E out \in apply(pages[pre.id], ChildSplit(right.lo, right.id), 1) :
        /\ pages' = [pages EXCEPT ![pre.id] = out.node]
        /\ node' = pages'[1]
        /\ last' = [op |-> "apply", ok |-> out.ok,
                    frag |-> ChildSplit(right.lo, right.id), mo |-> 1,
                    split |-> last.split, step |-> last.step]
    /\ UNCHANGED <<right, orig, pre, cuts, hist>>

ChainNext == ChainSplit \/ ChainChildSplit

ChainSpec == ChainInit /\ [][ChainNext]_vars

\* --------------------------- a Set between split and ChildSplit (WriteSpec)
WriteInit ==
    /\ node \in {p \in SplitPages : p.data.tag = "Leaf"}
    /\ right = NoNode
    /\ orig = NoNode
    /\ pre = node
    /\ cuts = <<>>
    /\ hist = <<>>
    /\ pages = <<>>
    /\ last = [op |-> "init", ok |-> TRUE, frag |-> NoFrag, mo |-> None,
               split |-> <<>>, step |-> 0]

\* a Set replayed on the page after split returned the sibling
SetBetween ==
    /\ last.op = "split"
    /\ last.ok
    /\ \E k \in FragKeys(node), v \in Values :
        \E out \in apply(node, Set(k, v), 1) :
            /\ node' = out.node
            /\ pre' = node
            /\ last' = [op |-> "set", ok |-> out.ok, frag |-> Set(k, v),
                        mo |-> 1, split |-> last.split, step |-> 2]
            /\ hist' = Append(hist, Set(k, v))
    /\ UNCHANGED <<right, orig, cuts, pages>>

\* the driver replays ChildSplit{at: right.lo, to: right.id} after the Set
ChildSplitAfterSet ==
    /\ last.op = "set"
    /\ last.ok
    /\ \E out \in apply(node, ChildSplit(right.lo, right.id), 1) :
        /\ node' = out.node
        /\ pre' = node
        /\ last' = [op |-> "apply", ok |-> out.ok,
                    frag |-> ChildSplit(right.lo, right.id), mo |-> 1,
                    split |-> last.split, step |-> 3]
    /\ cuts' = Append(cuts, inner(right.lo))
    /\ UNCHANGED <<right, orig, hist, pages>>

WriteNext == SplitPage \/ SetBetween \/ ChildSplitAfterSet

WriteSpec == WriteInit /\ [][WriteNext]_vars

\* ------------------------------------------------------- readers, helpers
ToSet(s) == {s[i] : i \in 1..Len(s)}

\* the (full key, value) pairs of a page, decoded against its own lo
Pairs(n) == DecodeAll(n.data.items, inner(n.lo))

FullKeys(n) == {x[1] : x \in ToSet(Pairs(n))}

\* the page the split was called on, or the page itself before the split
OrigPage == IF orig = NoNode THEN node ELSE orig

\* a point read of full key k on page n: the values found
LookupOn(n, k) ==
    LET hits == binary_search_by(n.data.items, prefix_encode(inner(n.lo), k))
    IN  {n.data.items[i][2] : i \in hits}

\* a read that starts at the left page and follows next when it misses
Lookup(k) ==
    IF LookupOn(node, k) # {} THEN LookupOn(node, k)
    ELSE IF right # NoNode /\ node.next = right.id THEN LookupOn(right, k)
    ELSE {}

Fanouts == 0..MaxSplitLen

SplitDone == last.op = "split" /\ last.ok

ChildSplitDone ==
    orig # NoNode /\ last.op = "apply" /\ last.frag.kind = "ChildSplit"

\* ----------------------------------------------------------------- C1
\* C1: B-link continuity.  At every point of the split protocol of a page
\* on which should_split holds (before split, after split built the right
\* sibling, after ChildSplit was replayed on the left page), a read that
\* starts at the left page finds every record the page held before the
\* split, with its value, on the left page or on the page next names.
C1_BlinkContinuity ==
    (\E fanout \in Fanouts : should_split(OrigPage, fanout)) =>
        \A x \in ToSet(Pairs(OrigPage)) : Lookup(x[1]) = {x[2]}

\* a record that moved: after ChildSplit it is found only by following next
C1_Witness ==
    /\ ChildSplitDone
    /\ \E x \in ToSet(Pairs(orig)) :
          /\ LookupOn(node, x[1]) = {}
          /\ node.next = right.id
          /\ LookupOn(right, x[1]) = {x[2]}

\* ----------------------------------------------------------------- C2
\* C2: split loses and duplicates nothing.  After split(new_id) and
\* ChildSplit{at: split key, to: new_id} on a page with unique keys, the
\* pairs of the left page and the pairs of the right page, each decoded
\* against its own lo, are together exactly the pairs of the original page,
\* each on exactly one of the two pages.
C2_SplitPartition ==
    ChildSplitDone =>
        /\ ToSet(Pairs(node)) \cup ToSet(Pairs(right)) = ToSet(Pairs(orig))
        /\ FullKeys(node) \cap FullKeys(right) = {}
        /\ len(node.data) + len(right.data) = len(orig.data)

\* a split that moved records whose encoding changed with the boundary
C2_Witness ==
    /\ ChildSplitDone
    /\ len(node.data) >= 2
    /\ len(right.data) >= 2
    /\ \E i \in 1..len(right.data) :
          right.data.items[i] \notin ToSet(orig.data.items)

\* ----------------------------------------------------------------- C3
\* the page holds four keys a < b < c < d and is split with fanout 2
FourKeys == len(orig.data) = 4 /\ should_split(orig, 2)

C4_SplitOrdering ==
    SplitDone =>
        /\ \A r \in FullKeys(right) :
              \A l \in {k \in FullKeys(orig) : KeyLt(k, last.split)} :
                  KeyLt(l, r)
        /\ last.split \in FullKeys(right)
        /\ \A r \in FullKeys(right) : LexCmp(last.split, r) <= 0

\* a split whose right half holds two keys and whose left half is not empty
C4_Witness ==
    /\ SplitDone
    /\ len(right.data) >= 2
    /\ \E k \in FullKeys(orig) : KeyLt(k, last.split)

\* ----------------------------------------------------- replay, helpers
Applied(kind) == last.op = "apply" /\ last.frag.kind = kind

\* the full key of the latest Set, Merge or Del fragment
LastKey == prefix_decode(inner(pre.lo), last.frag.k)

\* the records of a list other than the one stored under the encoded key k
WithoutKey(items, k) == SelectSeq(items, LAMBDA e : e[1] # k)

HasKey(items, k) == \E i \in 1..Len(items) : items[i][1] = k

\* ----------------------------------------------------------------- C5
\* C5: range invariant.  Starting from a page whose entries all decode into
\* [lo, hi), after any sequence of successful apply calls (Set, Merge, Del,
\* ChildSplit, ParentSplit, with any keys and bounds) every entry stored in
\* data, decoded against lo, is >= lo and < hi.
C5_RangeInvariant ==
    \A x \in ToSet(Pairs(node)) : InRange(x[1], node.lo, node.hi)

\* ----------------------------------------------------------------- C6
\* C6 as claimed: once ChildSplit{at, to} has been replayed on a Leaf page,
\* every later Set or Merge whose decoded key is >= at fails, and a later
\* Set whose decoded key is < at succeeds.
C6_AsClaimed ==
    (node.data.tag = "Leaf" /\ (Applied("Set") \/ Applied("Merge"))) =>
        \A i \in 1..Len(cuts) :
            /\ LexCmp(cuts[i], LastKey) <= 0 => ~last.ok
            /\ (Applied("Set") /\ KeyLt(LastKey, cuts[i])) => last.ok

\* C6 (amended): once ChildSplit{at, to} has been replayed on a Leaf page
\* and until another ChildSplit is replayed on it, every Set or Merge whose
\* decoded key is >= at fails (hi is Exclusive(at), so the key at itself is
\* rejected), and a Set whose decoded key is < at succeeds.
C6_AfterChildSplit ==
    (node.data.tag = "Leaf" /\ cuts # <<>>
        /\ (Applied("Set") \/ Applied("Merge"))) =>
        LET at == cuts[Len(cuts)]
        IN  /\ pre.hi = Exclusive(at)
            /\ LexCmp(at, LastKey) <= 0 => ~last.ok
            /\ (Applied("Set") /\ KeyLt(LastKey, at)) => last.ok

\* a Set of the key at itself, rejected after the ChildSplit
C6_Witness ==
    /\ node.data.tag = "Leaf"
    /\ cuts # <<>>
    /\ Applied("Set")
    /\ LastKey = cuts[Len(cuts)]
    /\ ~last.ok

\* ----------------------------------------------------------------- C7
\* C7: no partial mutation on failure.  Every apply call that fails leaves
\* id, data, next, lo and hi of the page exactly as they were.
C7_NoPartialMutation ==
    (last.op = "apply" /\ ~last.ok) => node = pre

\* a Set at or above hi, refused on a leaf that holds records
C7_Witness ==
    /\ Applied("Set")
    /\ ~last.ok
    /\ pre.data.tag = "Leaf"
    /\ len(pre.data) >= 1
    /\ ~BoundLt(Inclusive(LastKey), pre.hi)

\* ----------------------------------------------------------------- C8
\* C8: apply never continues on a structurally invalid fragment.  Set, Merge
\* and Del on an Index page fail, ParentSplit on a Leaf page fails, Merge
\* without a merge operator fails, and Base fails.
C8_StructuralFailures ==
    /\ ((Applied("Set") \/ Applied("Merge") \/ Applied("Del"))
            /\ pre.data.tag = "Index") => ~last.ok
    /\ (Applied("ParentSplit") /\ pre.data.tag = "Leaf") => ~last.ok
    /\ (Applied("Merge") /\ last.mo = None) => ~last.ok
    /\ Applied("Base") => ~last.ok

\* a Del of a key below hi, refused on an index page
C8_Witness ==
    /\ Applied("Del")
    /\ pre.data.tag = "Index"
    /\ BoundLt(Inclusive(LastKey), pre.hi)
    /\ ~last.ok

\* ----------------------------------------------------------------- C9
\* C9 as claimed: Del(k) on a Leaf page succeeds for every key k, removing
\* the record for k if present and changing nothing otherwise.
C9_AsClaimed ==
    (Applied("Del") /\ pre.data.tag = "Leaf") =>
        /\ last.ok
        /\ node = [pre EXCEPT !.data.items = WithoutKey(@, last.frag.k)]

\* C9 (amended): Del(k) on a Leaf page succeeds for every key k whose
\* decoded key is below hi: it removes the record for k if one is present
\* and leaves the page unchanged if k is absent.  Del fails when the payload
\* is Index and when the decoded key is not below hi.
C9_DelLeaf ==
    Applied("Del") =>
        /\ last.ok <=> (pre.data.tag = "Leaf"
                          /\ BoundLt(Inclusive(LastKey), pre.hi))
        /\ last.ok =>
              node = [pre EXCEPT !.data.items = WithoutKey(@, last.frag.k)]
        /\ (last.ok /\ ~HasKey(pre.data.items, last.frag.k)) => node = pre

\* a Del that removed one of several records
C9_Witness ==
    /\ Applied("Del")
    /\ last.ok
    /\ len(pre.data) >= 2
    /\ HasKey(pre.data.items, last.frag.k)
    /\ len(node.data) = len(pre.data) - 1

\* ---------------------------------------------------------------- C10
\* C10: Set/Del inverse.  On a Leaf page that holds no record for k (the
\* empty leaf page among them) and for every in-range key k and value v,
\* Set(k, v) followed by Del(k) yields the original Node: the same records
\* in the same order, the same id, lo, hi and next.
C10_SetDelInverse ==
    (Applied("Del") /\ orig # NoNode
        /\ ~HasKey(orig.data.items, last.frag.k)
        /\ InRange(prefix_decode(inner(orig.lo), last.frag.k),
                   orig.lo, orig.hi)) =>
        /\ last.ok
        /\ HasKey(pre.data.items, last.frag.k)
        /\ node = orig

\* a key set into the middle of a page and deleted again
C10_Witness ==
    /\ Applied("Del")
    /\ orig # NoNode
    /\ len(orig.data) >= 2
    /\ ~HasKey(orig.data.items, last.frag.k)
    /\ len(pre.data) = len(orig.data) + 1
    /\ pre.data.items[Len(pre.data.items)][1] # last.frag.k
    /\ node = orig

\* ---------------------------------------------------------------- C12
\* C12: split on a payload with fewer than 2 entries (0 or 1, Index or
\* Leaf) fails: it returns no split key and no right sibling, and the page
\* it was called on is unchanged.
C12_UndersizedSplitFails ==
    (last.op = "split" /\ len(orig.data) < 2) =>
        /\ ~last.ok
        /\ right = NoNode
        /\ node = orig

\* split refused on an index page with a single pointer
C12_Witness ==
    /\ last.op = "split"
    /\ orig.data.tag = "Index"
    /\ len(orig.data) = 1
    /\ ~last.ok

\* ---------------------------------------------------------------- C13
\* C13: whenever should_split(fanout) holds for a fanout >= 1 (n >= 2, also
\* n = 2), split(new_id) succeeds, the right sibling holds at least one
\* entry, and at least one entry has a full key below the split key.
C13_SplitSucceeds ==
    (last.op = "split"
        /\ \E fanout \in Fanouts : fanout >= 1 /\ should_split(orig, fanout)) =>
        /\ last.ok
        /\ len(right.data) >= 1
        /\ \E k \in FullKeys(orig) : KeyLt(k, last.split)

\* ---------------------------------------------------------------- C18
\* C18: split(new_id) does not change the page it is called on and returns
\* a Node with id = new_id, the payload variant of the page, the next of
\* the page, lo = Inclusive(split key) and the hi of the page.
C18_SplitFrame ==
    SplitDone =>
        /\ node = orig
        /\ right.id = last.frag.to
        /\ right.data.tag = orig.data.tag
        /\ right.next = orig.next
        /\ right.lo = Inclusive(last.split)
        /\ right.hi = orig.hi

\* the sibling of an index page that already had a sibling
C18_Witness ==
    /\ SplitDone
    /\ orig.data.tag = "Index"
    /\ orig.next = OldSibling
    /\ right.next = OldSibling
    /\ right.lo # orig.lo

\* ---------------------------------------------------------------- C14
StrictlySorted(items) ==
    \A i \in 1..(Len(items) - 1) : prefix_cmp(items[i][1], items[i + 1][1]) = -1

\* C14: leaf sortedness.  Starting from a Leaf page whose records are
\* strictly sorted by the prefix comparator, after any sequence of Set,
\* Merge, Del and ChildSplit fragments the records are still strictly
\* sorted, with unique keys.
C14_LeafSorted ==
    node.data.tag = "Leaf" => StrictlySorted(node.data.items)

\* a Set that put a new key in front of records the page held
C14_Witness ==
    /\ Applied("Set")
    /\ last.ok
    /\ len(pre.data) = 2
    /\ len(node.data) = 3
    /\ node.data.items[3][1] # last.frag.k

\* ---------------------------------------------------------------- C15
\* C15: Set is an upsert with no other effect.  After a successful
\* Set(k, v) on a Leaf page there is exactly one record for k, with value
\* v, every other record is unchanged, the count grows by one if k was
\* absent and is unchanged if k was present, and id, lo, hi and next are
\* unchanged.
C15_SetUpsert ==
    (Applied("Set") /\ last.ok) =>
        LET k == last.frag.k
            hits == {i \in 1..len(node.data) : node.data.items[i][1] = k}
        IN  /\ pre.data.tag = "Leaf"
            /\ Cardinality(hits) = 1
            /\ \A i \in hits : node.data.items[i][2] = last.frag.v
            /\ WithoutKey(node.data.items, k) = WithoutKey(pre.data.items, k)
            /\ len(node.data) = IF HasKey(pre.data.items, k)
                                THEN len(pre.data) ELSE len(pre.data) + 1
            /\ node = [pre EXCEPT !.data.items = node.data.items]

\* a Set that replaced the value of a key among other records
C15_Witness ==
    /\ Applied("Set")
    /\ last.ok
    /\ len(pre.data) >= 2
    /\ HasKey(pre.data.items, last.frag.k)
    /\ <<last.frag.k, last.frag.v>> \notin ToSet(pre.data.items)

\* ---------------------------------------------------------------- C16
\* C16: ChildSplit{at, to} never fails, on either payload variant and for
\* any at; afterwards data holds exactly the former entries whose decoded
\* key is below at, in their order, hi = Exclusive(at), next = Some(to),
\* and id and lo are unchanged.
C16_ChildSplit ==
    Applied("ChildSplit") =>
        LET at == inner(last.frag.at)
        IN  /\ last.ok
            /\ node.data.items =
                  SelectSeq(pre.data.items,
                      LAMBDA e : KeyLt(prefix_decode(inner(pre.lo), e[1]), at))
            /\ node = [pre EXCEPT !.data.items = node.data.items,
                                  !.hi = Exclusive(at),
                                  !.next = last.frag.to]

\* a ChildSplit that cut an index page in two
C16_Witness ==
    /\ Applied("ChildSplit")
    /\ pre.data.tag = "Index"
    /\ last.frag.at.incl
    /\ len(node.data) >= 1
    /\ len(node.data) < len(pre.data)

\* ---------------------------------------------------------------- C17
\* C17: ParentSplit{at, to} on an Index page adds exactly the entry
\* (encode(lo, at), to) and removes none, also when a separator equal to at
\* is present; the list is in comparator order afterwards and id, lo, hi
\* and next are unchanged.
C17_ParentSplit ==
    (Applied("ParentSplit") /\ pre.data.tag = "Index") =>
        LET sep == prefix_encode(inner(pre.lo), inner(last.frag.at))
        IN  /\ last.ok
            /\ len(node.data) = len(pre.data) + 1
            /\ node.data.items
                  \in Perms(Append(pre.data.items, <<sep, last.frag.to>>))
            /\ IsSortedByPrefixCmp(node.data.items)
            /\ node = [pre EXCEPT !.data.items = node.data.items]

\* a ParentSplit for a separator the index page already held
C17_Witness ==
    /\ Applied("ParentSplit")
    /\ last.ok
    /\ HasKey(pre.data.items,
              prefix_encode(inner(pre.lo), inner(last.frag.at)))
    /\ len(node.data) = len(pre.data) + 1

\* ---------------------------------------------------------------- C11
\* the value of the record with encoded key k on page n, None when absent
RecordOf(n, k) ==
    IF HasKey(n.data.items, k)
    THEN (CHOOSE e \in ToSet(n.data.items) : e[1] = k)[2]
    ELSE None

\* the left fold of the operator over the values of the fragments fs
RECURSIVE FoldMerge(_, _, _)
FoldMerge(decoded_k, acc, fs) ==
    IF fs = <<>> THEN acc
    ELSE FoldMerge(decoded_k, merge_fn(decoded_k, acc, fs[1].v), Tail(fs))

\* C11: after any sequence Merge(k, v1), ..., Merge(k, vn) on a Leaf page
\* the record for k is the left fold of the merge operator over v1..vn,
\* started from what the page held for k: a Some result is stored as the
\* one record of k, a None result leaves k absent, and the next Merge then
\* sees None.
C11_MergeFold ==
    hist # <<>> =>
        LET k == hist[1].k
            res == FoldMerge(prefix_decode_key(orig, k), RecordOf(orig, k), hist)
        IN  /\ Cardinality({i \in 1..len(node.data) : node.data.items[i][1] = k})
                  = IF res = None THEN 0 ELSE 1
            /\ RecordOf(node, k) = res
            /\ WithoutKey(node.data.items, k) = WithoutKey(orig.data.items, k)

\* three merges of a key the page held: the second removed the record and
\* the third stored one again
C11_Witness ==
    /\ Len(hist) = 3
    /\ HasKey(orig.data.items, hist[1].k)
    /\ ~HasKey(pre.data.items, hist[1].k)
    /\ HasKey(node.data.items, hist[1].k)
    /\ FoldMerge(prefix_decode_key(orig, hist[1].k),
                 RecordOf(orig, hist[1].k), SubSeq(hist, 1, 1)) # None

\* ---------------------------------------------------------------- C19
\* the ids met on the way from page id along next, at most fuel of them
RECURSIVE Walk(_, _)
Walk(id, fuel) ==
    IF fuel = 0 \/ id \notin DOMAIN pages THEN <<>>
    ELSE <<id>> \o Walk(pages[id].next, fuel - 1)

Chain == Walk(1, Len(pages) + 1)

\* C19: sibling chain under repeated splits.  After any sequence of splits,
\* each followed by its ChildSplit, following next from the original page
\* visits every page created, once, in strictly ascending order of key
\* range; the hi key of each page is the lo key of its successor, and the
\* last page has the hi (and the next) of the original page.
C19_SiblingChain ==
    ~(last.op = "split" /\ last.ok) =>
        LET n == Len(pages)
        IN  /\ Len(Chain) = n
            /\ ToSet(Chain) = 1..n
            /\ \A j \in 1..(n - 1) :
                  LET a == pages[Chain[j]]
                      b == pages[Chain[j + 1]]
                  IN  /\ KeyLt(inner(a.lo), inner(b.lo))
                      /\ a.hi = Exclusive(inner(b.lo))
                      /\ b.lo = Inclusive(inner(b.lo))
            /\ pages[Chain[n]].hi = orig.hi
            /\ pages[Chain[n]].next = orig.next
            /\ pages[1].lo = orig.lo

\* four pages, made by splitting both the first page and a sibling
C19_Witness ==
    /\ Len(pages) = MaxChainPages
    /\ last.op = "apply"
    /\ Chain # <<1, 2, 3, 4>>
    /\ Chain # <<1, 4, 3, 2>>
    /\ orig.next = ChainSibling

\* ---------------------------------------------------------------- C20
\* the Set fragment replayed between split and ChildSplit
TheSet == hist[1]

SetKey == prefix_decode_key(orig, TheSet.k)

WriteDone == last.op = "apply" /\ hist # <<>>

\* C20 as the spec states it: a Set(k, v) with split key <= k < hi replayed
\* on the left page after split computed the sibling and before ChildSplit
\* is still found, after ChildSplit, on the left page or on the page its
\* next names.
C20_AsClaimed ==
    (WriteDone /\ ~KeyLt(SetKey, last.split)) =>
        \/ TheSet.v \in LookupOn(node, SetKey)
        \/ node.next = right.id /\ TheSet.v \in LookupOn(right, SetKey)

\* C20 as the code has it: ChildSplit drops such a Set from the left page
\* and the sibling holds for k what the page held when split was called; a
\* Set of a key below the split key stays on the left page.
C20_WriteAcrossSplit ==
    WriteDone =>
        IF KeyLt(SetKey, last.split)
        THEN LookupOn(node, SetKey) = {TheSet.v}
        ELSE /\ LookupOn(node, SetKey) = {}
             /\ node.next = right.id
             /\ LookupOn(right, SetKey) = LookupOn(orig, SetKey)

\* a Set of a new key at or above the split key, gone after ChildSplit
C20_Witness ==
    /\ WriteDone
    /\ ~KeyLt(SetKey, last.split)
    /\ LookupOn(orig, SetKey) = {}
    /\ LookupOn(pre, SetKey) = {TheSet.v}
    /\ LookupOn(node, SetKey) = {}
    /\ LookupOn(right, SetKey) = {}

====
